---- MODULE Spec2Model ----
(***************************************************************************)
(* Reviewer assignment service: the storage layer (internal/storage) over  *)
(* a PostgreSQL database, run by concurrent request workers.               *)
(*                                                                         *)
(* Every SQL statement is one atomic step.  Statements issued on s.db run  *)
(* in autocommit mode; statements issued on a tx write into the worker's   *)
(* pending write set, which becomes visible at tx.Commit() (READ COMMITTED,*)
(* the PostgreSQL default).  A statement that needs a row or a key that    *)
(* another open transaction has written waits for that transaction.        *)
(***************************************************************************)
EXTENDS Naturals, Sequences, FiniteSets

\* ---------------------------------------------------------------- bounds

\* Number of operations (requests) started over one behaviour.
MaxOps == 4

\* The request workers, and the values the requests are drawn from.
Workers == {1, 2}
Users == {"A", "B", "C", "D"}
Teams == {"T1", "T2"}
PRIds == {"p1"}

\* ---------------------------------------------------------------- values

StatusOpen == "OPEN"
StatusMerged == "MERGED"

ErrNone == ""
ErrTeamExists == "TEAM_EXISTS"
ErrPRExists == "PR_EXISTS"
ErrPRMerged == "PR_MERGED"
ErrNotFound == "NOT_FOUND"
ErrNotAssigned == "NOT_ASSIGNED"
ErrNoCandidate == "NO_CANDIDATE"
ErrAuthorNotFound == "AUTHOR_NOT_FOUND"
\* Any error that is none of the sentinels above (a driver error that the
\* code wraps and returns as it is).
ErrOther == "OTHER"

\* The request ended in a panic, which the router's recovery turned into a
\* response: no error value was returned.
Panicked == "PANIC"

\* The state of the shared random source s.rng: sound, or left by draws that
\* ran at the same time on its unsynchronised state.
RngSound == "sound"
RngRaced == "raced"

\* merged_at IS NULL / MergedAt == nil
NoTime == 0

\* models.User, and its Go zero value
User(id, name, team, active) ==
    [user_id |-> id, username |-> name, team_name |-> team, is_active |-> active]

NoUser == User("", "", "", FALSE)

\* models.PullRequest, and its Go zero value
PullRequest(id, name, author, status, reviewers, created, merged) ==
    [pull_request_id |-> id, pull_request_name |-> name, author_id |-> author,
     status |-> status, assigned_reviewers |-> reviewers,
     created_at |-> created, merged_at |-> merged]

NoPR == PullRequest("", "", "", "", <<>>, NoTime, NoTime)

\* A member of a create-team request (user_id, username, is_active)
Member(id, name, active) == [user_id |-> id, username |-> name, is_active |-> active]

\* The member lists of the create-team requests.
FullTeam ==
    << Member("A", "a", TRUE), Member("B", "b", TRUE),
       Member("C", "c", TRUE), Member("D", "d", TRUE) >>

SmallTeam == << Member("A", "a", TRUE), Member("B", "b", TRUE), Member("C", "c", FALSE) >>

TrioTeam == << Member("A", "a", TRUE), Member("B", "b", TRUE), Member("C", "c", TRUE) >>

MovedTeam == << Member("D", "d", TRUE), Member("C", "c2", TRUE), Member("B", "b2", TRUE) >>

\* The create-team requests: team name and member list.
TeamRequests == { << "T1", FullTeam >>, << "T2", MovedTeam >> }

\* The create-PR requests: name and author.
PRRequests == { << "x", "A" >>, << "y", "A" >> }

\* The users that requests name as old reviewer and in set-active calls.
OldReviewers == {"B", "D"}
Toggled == {"D"}

Range(s) == {s[i] : i \in DOMAIN s}

Min(a, b) == IF a <= b THEN a ELSE b

\* ---------------------------------------------------------------- state

VARIABLES
    teams,          \* table teams: set of names
    users,          \* table users: set of rows
    pull_requests,  \* table pull_requests: set of rows
    pr_reviewers,   \* table pr_reviewers: set of rows
    pc,             \* per worker: the statement it is about to run
    req,            \* per worker: the request it serves
    loc,            \* per worker: the local variables of the running method
    tx,             \* per worker: the uncommitted writes of its transaction
    ret,            \* per worker: what the finished method returned
    started,        \* number of operations started so far
    rng             \* the state of the shared random source s.rng

vars == << teams, users, pull_requests, pr_reviewers, pc, req, loc, tx, ret, started, rng >>

tables == << teams, users, pull_requests, pr_reviewers >>

\* A request: the method and its arguments (unused arguments are zero).
Request(op, team, members, user, active, pr, name, author, old) ==
    [op |-> op, team_name |-> team, members |-> members, user_id |-> user,
     is_active |-> active, pull_request_id |-> pr, pull_request_name |-> name,
     author_id |-> author, old_reviewer_id |-> old]

NoRequest == Request("", "", <<>>, "", FALSE, "", "", "", "")

CreateTeamRequest(t, ms) == Request("CreateTeam", t, ms, "", FALSE, "", "", "", "")
SetUserActiveRequest(u, a) == Request("SetUserActive", "", <<>>, u, a, "", "", "", "")
CreatePRRequest(p, n, a) == Request("CreatePR", "", <<>>, "", FALSE, p, n, a, "")
MergePRRequest(p) == Request("MergePR", "", <<>>, "", FALSE, p, "", "", "")
ReassignRequest(p, o) == Request("ReassignReviewer", "", <<>>, "", FALSE, p, "", "", o)

\* Local variables of the storage methods.
NoLocals ==
    [author |-> NoUser, candidateIDs |-> {}, reviewers |-> <<>>, pr |-> NoPR,
     oldReviewerTeam |-> "", newReviewer |-> "", now |-> NoTime, i |-> 0]

\* The writes of an open transaction.  begun is the transaction's start
\* time, which NOW() returns for every statement of the transaction.
NoTx ==
    [open |-> FALSE, begun |-> NoTime, teams |-> {}, users |-> {}, prs |-> {},
     revIns |-> {}, revDel |-> {}]

\* What a method returned: the error's kind and the values beside it.
Result(err, pr, newReviewer, user) ==
    [err |-> err, pr |-> pr, replaced_by |-> newReviewer, user |-> user]

NoResult == Result(ErrNone, NoPR, "", NoUser)
Failure(err) == Result(err, NoPR, "", NoUser)

\* The rows CreateTeam leaves in table users for a team and its members.
MemberRows(name, members) ==
    {User(members[i].user_id, members[i].username, name, members[i].is_active) :
        i \in DOMAIN members}

\* Storage.Init creates the tables only if they do not exist: the service
\* starts on the database an earlier run left, here an empty one or the one
\* that CreateTeam(T1, SmallTeam) or CreateTeam(T1, TrioTeam) leaves.
Init ==
    /\ \/ teams = {} /\ users = {}
       \/ teams = {"T1"} /\ users = MemberRows("T1", SmallTeam)
       \/ teams = {"T1"} /\ users = MemberRows("T1", TrioTeam)
    /\ pull_requests = {}
    /\ pr_reviewers = {}
    /\ pc = [w \in Workers |-> "idle"]
    /\ req = [w \in Workers |-> NoRequest]
    /\ loc = [w \in Workers |-> NoLocals]
    /\ tx = [w \in Workers |-> NoTx]
    /\ ret = [w \in Workers |-> NoResult]
    /\ started = 0
    /\ rng = RngSound

\* ---------------------------------------------------------------- helpers

\* A finished call is handed to the caller before anything else is looked at.
NoneDone == \A o \in Workers : pc[o] # "done"

\* Worker w is about to run the statement named label.
At(w, label) == pc[w] = label /\ NoneDone

\* A request goes to the first worker that has none in progress.
Free(w) ==
    /\ At(w, "idle")
    /\ \A o \in Workers : o < w => pc[o] # "idle"
    /\ started < MaxOps

\* The method returns: defer tx.Rollback() drops what was not committed.
Return(w, result) ==
    /\ pc' = [pc EXCEPT ![w] = "done"]
    /\ ret' = [ret EXCEPT ![w] = result]
    /\ loc' = [loc EXCEPT ![w] = NoLocals]
    /\ tx' = [tx EXCEPT ![w] = NoTx]
    /\ UNCHANGED rng

\* The method goes on to statement next with locals l and pending writes t.
Goto(w, next, l, t) ==
    /\ pc' = [pc EXCEPT ![w] = next]
    /\ loc' = [loc EXCEPT ![w] = l]
    /\ tx' = [tx EXCEPT ![w] = t]
    /\ UNCHANGED << ret, rng >>

Others(w) == Workers \ {w}

\* Worker w is inside s.rng.Shuffle or s.rng.Intn.
Drawing(w) == pc[w] \in {"cp_draw", "ra_draw"}

\* Worker w enters a draw on s.rng with locals l: the source has no lock, so
\* the draw runs on its state together with every draw already in progress.
EnterDraw(w, label, l) ==
    /\ pc' = [pc EXCEPT ![w] = label]
    /\ loc' = [loc EXCEPT ![w] = l]
    /\ rng' = IF \E o \in Others(w) : Drawing(o) THEN RngRaced ELSE rng
    /\ UNCHANGED << tx, ret >>

Max(S) == CHOOSE m \in S : \A n \in S : n <= m

\* The times the state holds: in the tables, in the workers' local variables,
\* in their transactions and in what they returned.
Times ==
    {p.created_at : p \in pull_requests} \cup {p.merged_at : p \in pull_requests}
    \cup {r.assigned_at : r \in pr_reviewers}
    \cup UNION {{loc[w].now, loc[w].pr.created_at, loc[w].pr.merged_at, tx[w].begun,
                 ret[w].pr.created_at, ret[w].pr.merged_at} : w \in Workers}
    \cup UNION {{p.created_at : p \in tx[w].prs} : w \in Workers}
    \cup UNION {{r.assigned_at : r \in tx[w].revIns} : w \in Workers}

\* time.Now() and NOW(): the clock only moves forward, so a reading is later
\* than every time read before.  Times are only compared with each other, so
\* the reading is the first time after those the state still holds.
Now == Max(Times \cup {NoTime}) + 1

UserRows(id) == {u \in users : u.user_id = id}
PRRows(id) == {p \in pull_requests : p.pull_request_id = id}
ReviewerRows(prID) == {r \in pr_reviewers : r.pr_id = prID}

\* Row and key locks (PostgreSQL): the other workers whose open transaction
\* holds an uncommitted write that the statement has to wait for.
TeamKeyHolders(w, name) == {o \in Others(w) : name \in tx[o].teams}

UserRowHolders(w, id) == {o \in Others(w) : \E u \in tx[o].users : u.user_id = id}

PRKeyHolders(w, id) == {o \in Others(w) : \E p \in tx[o].prs : p.pull_request_id = id}

ReviewerRowHolders(w, prID, id) ==
    {o \in Others(w) : \E r \in tx[o].revDel : r.pr_id = prID /\ r.reviewer_id = id}

ReviewerKeyHolders(w, prID, id) ==
    {o \in Others(w) :
        \E r \in tx[o].revIns \cup tx[o].revDel : r.pr_id = prID /\ r.reviewer_id = id}

\* ---------------------------------------------------------------- CreateTeam

\* INSERT INTO users ... ON CONFLICT (user_id) DO UPDATE SET username,
\* team_name, is_active: the row with that user_id is replaced.
UpsertUser(rows, row) == {u \in rows : u.user_id # row.user_id} \cup {row}

\* Faulty variant: INSERT INTO teams ... ON CONFLICT DO NOTHING
CreateTeam_InsertTeam_Upsert(w, name, members) ==
    /\ Free(w)
    /\ TeamKeyHolders(w, name) = {}
    /\ started' = started + 1
    /\ req' = [req EXCEPT ![w] = CreateTeamRequest(name, members)]
    /\ Goto(w, "ct_member", [NoLocals EXCEPT !.i = 1],
            [NoTx EXCEPT !.open = TRUE, !.teams = {name}])
    /\ UNCHANGED tables

\* tx.Begin(); INSERT INTO teams (name)
CreateTeam_InsertTeam(w, name, members) ==
    /\ Free(w)
    /\ TeamKeyHolders(w, name) = {}
    /\ started' = started + 1
    /\ req' = [req EXCEPT ![w] = CreateTeamRequest(name, members)]
    /\ IF name \in teams
       THEN Return(w, Failure(ErrTeamExists))
       ELSE Goto(w, "ct_member", [NoLocals EXCEPT !.i = 1],
                 [NoTx EXCEPT !.open = TRUE, !.teams = {name}])
    /\ UNCHANGED tables

\* for _, member := range team.Members: the upsert of one member
CreateTeam_UpsertMember(w) ==
    /\ At(w, "ct_member")
    /\ loc[w].i <= Len(req[w].members)
    /\ LET m == req[w].members[loc[w].i]
           row == User(m.user_id, m.username, req[w].team_name, m.is_active)
       IN /\ UserRowHolders(w, m.user_id) = {}
          /\ Goto(w, "ct_member", [loc[w] EXCEPT !.i = @ + 1],
                  [tx[w] EXCEPT !.users = UpsertUser(@, row)])
    /\ UNCHANGED << tables, req, started >>

\* Faulty variant: member inserts without ON CONFLICT (user_id) DO UPDATE and
\* without the primary key on user_id
CommitUsers_Append(rows, pending) == rows \cup pending

\* The rows of table users once the pending upserts are committed.
CommitUsers(rows, pending) ==
    {u \in rows : \A p \in pending : p.user_id # u.user_id} \cup pending

\* return tx.Commit()
CreateTeam_Commit(w) ==
    /\ At(w, "ct_member")
    /\ loc[w].i > Len(req[w].members)
    /\ teams' = teams \cup tx[w].teams
    /\ users' = CommitUsers(users, tx[w].users)
    /\ Return(w, NoResult)
    /\ UNCHANGED << pull_requests, pr_reviewers, req, started >>

\* ---------------------------------------------------------------- SetUserActive

\* Faulty variant: the UPDATE of is_active without WHERE user_id = $2
SetUserActive_NoWhere(w, userID, isActive) ==
    /\ Free(w)
    /\ UserRowHolders(w, userID) = {}
    /\ started' = started + 1
    /\ req' = [req EXCEPT ![w] = SetUserActiveRequest(userID, isActive)]
    /\ IF UserRows(userID) = {}
       THEN /\ Return(w, Failure(ErrNotFound))
            /\ UNCHANGED users
       ELSE /\ users' = {[u EXCEPT !.is_active = isActive] : u \in users}
            /\ \E u \in UserRows(userID) :
                  Return(w, Result(ErrNone, NoPR, "", [u EXCEPT !.is_active = isActive]))
    /\ UNCHANGED << teams, pull_requests, pr_reviewers >>

\* UPDATE users SET is_active = $1 WHERE user_id = $2 RETURNING ...
SetUserActive(w, userID, isActive) ==
    /\ Free(w)
    /\ UserRowHolders(w, userID) = {}
    /\ started' = started + 1
    /\ req' = [req EXCEPT ![w] = SetUserActiveRequest(userID, isActive)]
    /\ IF UserRows(userID) = {}
       THEN /\ Return(w, Failure(ErrNotFound))
            /\ UNCHANGED users
       ELSE /\ users' = {IF u.user_id = userID THEN [u EXCEPT !.is_active = isActive] ELSE u :
                            u \in users}
            /\ \E u \in UserRows(userID) :
                  Return(w, Result(ErrNone, NoPR, "", [u EXCEPT !.is_active = isActive]))
    /\ UNCHANGED << teams, pull_requests, pr_reviewers >>

\* ---------------------------------------------------------------- helper methods

\* Faulty variant: a membership test that finds every item
contains_Always(slice, item) == TRUE

\* s.contains
contains(slice, item) == \E i \in DOMAIN slice : slice[i] = item

\* Faulty variant: the old entry removed and the new one appended
replaceInSlice_Append(slice, old, new) ==
    LET RECURSIVE Without(_)
        Without(t) == IF t = <<>> THEN <<>>
                      ELSE IF Head(t) = old THEN Without(Tail(t))
                      ELSE <<Head(t)>> \o Without(Tail(t))
    IN IF contains(slice, old) THEN Append(Without(slice), new) ELSE slice

\* s.replaceInSlice
replaceInSlice(slice, old, new) ==
    [i \in DOMAIN slice |-> IF slice[i] = old THEN new ELSE slice[i]]

\* Faulty variant: the shuffle without the cut to max entries
selectRandomReviewers_Uncut(candidates, max) ==
    IF candidates = {}
    THEN {<<>>}
    ELSE {s \in [1..Cardinality(candidates) -> candidates] :
             \A i, j \in DOMAIN s : i # j => s[i] # s[j]}

\* s.selectRandomReviewers: the results the shuffle can give, the first max
\* entries of a permutation of the candidates.
selectRandomReviewers(candidates, max) ==
    IF candidates = {}
    THEN {<<>>}
    ELSE {s \in [1..Min(Cardinality(candidates), max) -> candidates] :
             \A i, j \in DOMAIN s : i # j => s[i] # s[j]}

\* s.selectRandomReviewer: the results s.rng.Intn can pick.
selectRandomReviewer(candidates) == IF candidates = {} THEN {""} ELSE candidates

\* Faulty variant: the candidate query without user_id != $2
createPRCandidates_WithAuthor(author) ==
    {u.user_id : u \in {x \in users : x.team_name = author.team_name /\ x.is_active}}

\* The candidate query of CreatePR: active users of the author's team other
\* than the author.
createPRCandidates(author) ==
    {u.user_id : u \in {x \in users : /\ x.team_name = author.team_name
                                       /\ x.is_active
                                       /\ x.user_id # author.user_id}}

\* Faulty variant: the replacement query without is_active = true
findReplacementCandidates_AnyActivity(teamName, authorID, currentReviewers, excludeReviewer) ==
    {u.user_id : u \in {x \in users : /\ x.team_name = teamName
                                       /\ x.user_id # authorID
                                       /\ x.user_id # excludeReviewer
                                       /\ \A i \in DOMAIN currentReviewers :
                                             currentReviewers[i] # excludeReviewer
                                                 => x.user_id # currentReviewers[i]}}

\* s.findReplacementCandidates: active users of the team other than the
\* author, the replaced reviewer and the other current reviewers.
findReplacementCandidates(teamName, authorID, currentReviewers, excludeReviewer) ==
    {u.user_id : u \in {x \in users : /\ x.team_name = teamName
                                       /\ x.is_active
                                       /\ x.user_id # authorID
                                       /\ x.user_id # excludeReviewer
                                       /\ \A i \in DOMAIN currentReviewers :
                                             currentReviewers[i] # excludeReviewer
                                                 => x.user_id # currentReviewers[i]}}

\* s.getPRReviewers: the reviewer ids of the PR's rows ORDER BY assigned_at;
\* rows with equal assigned_at come in any order.
getPRReviewers(prID) ==
    LET rows == ReviewerRows(prID)
        orders == {s \in [1..Cardinality(rows) -> rows] :
                      /\ \A i, j \in DOMAIN s : i # j => s[i] # s[j]
                      /\ \A i, j \in DOMAIN s : i < j => s[i].assigned_at <= s[j].assigned_at}
    IN {[i \in DOMAIN s |-> s[i].reviewer_id] : s \in orders}

\* The PullRequest that the first query of s.getPRWithReviewers scans.
ScanPR(row) ==
    PullRequest(row.pull_request_id, row.pull_request_name, row.author_id, row.status,
                <<>>, row.created_at, row.merged_at)

\* Faulty variant: table pr_reviewers without its primary key
ReviewerKeyTaken_NoKey(w, prID, id) == FALSE

\* INSERT INTO pr_reviewers: whether the primary key (pr_id, reviewer_id) is
\* already taken, in the committed rows the transaction has not deleted or in
\* its own inserts.
ReviewerKeyTaken(w, prID, id) ==
    \E r \in (pr_reviewers \ tx[w].revDel) \cup tx[w].revIns :
        r.pr_id = prID /\ r.reviewer_id = id

\* The rows of table pr_reviewers once a transaction's writes are committed.
CommitReviewers(rows, deleted, inserted) == (rows \ deleted) \cup inserted

\* ---------------------------------------------------------------- CreatePR

\* Faulty variant: the author query with sql.ErrNoRows ignored
CreatePR_ReadAuthor_Unresolved(w, id, name, authorID) ==
    /\ Free(w)
    /\ started' = started + 1
    /\ req' = [req EXCEPT ![w] = CreatePRRequest(id, name, authorID)]
    /\ IF UserRows(authorID) = {}
       THEN Goto(w, "cp_candidates", NoLocals, NoTx)
       ELSE \E u \in UserRows(authorID) :
               Goto(w, "cp_candidates", [NoLocals EXCEPT !.author = u], NoTx)
    /\ UNCHANGED tables

\* SELECT ... FROM users WHERE user_id = $1 (the author)
CreatePR_ReadAuthor(w, id, name, authorID) ==
    /\ Free(w)
    /\ started' = started + 1
    /\ req' = [req EXCEPT ![w] = CreatePRRequest(id, name, authorID)]
    /\ IF UserRows(authorID) = {}
       THEN Return(w, Failure(ErrAuthorNotFound))
       ELSE \E u \in UserRows(authorID) :
               Goto(w, "cp_candidates", [NoLocals EXCEPT !.author = u], NoTx)
    /\ UNCHANGED tables

\* The candidate query; s.selectRandomReviewers(candidateIDs, 2) returns at
\* once for no candidates (then s.db.Begin()), and else enters s.rng.Shuffle
CreatePR_ReadCandidates(w) ==
    /\ At(w, "cp_candidates")
    /\ LET candidateIDs == createPRCandidates(loc[w].author)
       IN IF candidateIDs = {}
          THEN Goto(w, "cp_exists", [loc[w] EXCEPT !.reviewers = <<>>],
                    [NoTx EXCEPT !.open = TRUE, !.begun = Now])
          ELSE EnterDraw(w, "cp_draw", [loc[w] EXCEPT !.candidateIDs = candidateIDs])
    /\ UNCHANGED << tables, req, started >>

\* s.rng.Shuffle returns; the cut to max entries; s.db.Begin()
CreatePR_Draw(w) ==
    /\ At(w, "cp_draw")
    /\ \E rs \in selectRandomReviewers(loc[w].candidateIDs, 2) :
          Goto(w, "cp_exists", [loc[w] EXCEPT !.reviewers = rs],
               [NoTx EXCEPT !.open = TRUE, !.begun = Now])
    /\ UNCHANGED << tables, req, started >>

\* Faulty variant: CreatePR without the check for an existing PR
CreatePR_CheckExists_Unchecked(w) ==
    /\ At(w, "cp_exists")
    /\ Goto(w, "cp_insert", [loc[w] EXCEPT !.now = Now], tx[w])
    /\ UNCHANGED << tables, req, started >>

\* SELECT EXISTS(SELECT 1 FROM pull_requests WHERE pull_request_id = $1);
\* now := time.Now()
CreatePR_CheckExists(w) ==
    /\ At(w, "cp_exists")
    /\ IF PRRows(req[w].pull_request_id) # {}
       THEN /\ Return(w, Failure(ErrPRExists))
       ELSE /\ Goto(w, "cp_insert", [loc[w] EXCEPT !.now = Now], tx[w])
    /\ UNCHANGED << tables, req, started >>

\* INSERT INTO pull_requests: waits for an open transaction that inserted the
\* same id, and fails on the primary key when the id is committed.
CreatePR_InsertPR(w) ==
    /\ At(w, "cp_insert")
    /\ PRKeyHolders(w, req[w].pull_request_id) = {}
    /\ IF PRRows(req[w].pull_request_id) # {}
       THEN Return(w, Failure(ErrOther))
       ELSE Goto(w, "cp_reviewer", [loc[w] EXCEPT !.i = 1],
                 [tx[w] EXCEPT !.prs =
                     {[pull_request_id |-> req[w].pull_request_id,
                       pull_request_name |-> req[w].pull_request_name,
                       author_id |-> req[w].author_id,
                       status |-> StatusOpen,
                       created_at |-> loc[w].now,
                       merged_at |-> NoTime]}])
    /\ UNCHANGED << tables, req, started >>

\* for _, reviewer := range reviewers: INSERT INTO pr_reviewers
CreatePR_InsertReviewer(w) ==
    /\ At(w, "cp_reviewer")
    /\ loc[w].i <= Len(loc[w].reviewers)
    /\ LET id == loc[w].reviewers[loc[w].i]
       IN /\ ReviewerKeyHolders(w, req[w].pull_request_id, id) = {}
          /\ IF ReviewerKeyTaken(w, req[w].pull_request_id, id)
             THEN Return(w, Failure(ErrOther))
             ELSE Goto(w, "cp_reviewer", [loc[w] EXCEPT !.i = @ + 1],
                       [tx[w] EXCEPT !.revIns = @ \cup
                           {[pr_id |-> req[w].pull_request_id, reviewer_id |-> id,
                             assigned_at |-> tx[w].begun]}])
    /\ UNCHANGED << tables, req, started >>

\* tx.Commit(); return the PullRequest with the selected reviewers
CreatePR_Commit(w) ==
    /\ At(w, "cp_reviewer")
    /\ loc[w].i > Len(loc[w].reviewers)
    /\ pull_requests' = pull_requests \cup tx[w].prs
    /\ pr_reviewers' = CommitReviewers(pr_reviewers, tx[w].revDel, tx[w].revIns)
    /\ Return(w, Result(ErrNone,
                        PullRequest(req[w].pull_request_id, req[w].pull_request_name,
                                    req[w].author_id, StatusOpen, loc[w].reviewers,
                                    loc[w].now, NoTime),
                        "", NoUser))
    /\ UNCHANGED << teams, users, req, started >>

\* ---------------------------------------------------------------- MergePR

\* Faulty variant: the PR query with sql.ErrNoRows ignored
MergePR_ReadPR_NoRows(w, prID) ==
    /\ Free(w)
    /\ started' = started + 1
    /\ req' = [req EXCEPT ![w] = MergePRRequest(prID)]
    /\ IF PRRows(prID) = {}
       THEN Goto(w, "mp_reviewers", NoLocals, NoTx)
       ELSE \E p \in PRRows(prID) :
               Goto(w, "mp_reviewers", [NoLocals EXCEPT !.pr = ScanPR(p)], NoTx)
    /\ UNCHANGED tables

\* s.getPRWithReviewers: SELECT ... FROM pull_requests WHERE pull_request_id = $1
MergePR_ReadPR(w, prID) ==
    /\ Free(w)
    /\ started' = started + 1
    /\ req' = [req EXCEPT ![w] = MergePRRequest(prID)]
    /\ IF PRRows(prID) = {}
       THEN Return(w, Failure(ErrNotFound))
       ELSE \E p \in PRRows(prID) :
               Goto(w, "mp_reviewers", [NoLocals EXCEPT !.pr = ScanPR(p)], NoTx)
    /\ UNCHANGED tables

\* Faulty variant: MergePR without the early return for a merged PR
MergePR_ReadReviewers_Always(w) ==
    /\ At(w, "mp_reviewers")
    /\ \E rs \in getPRReviewers(req[w].pull_request_id) :
          Goto(w, "mp_update",
               [loc[w] EXCEPT !.pr = [@ EXCEPT !.assigned_reviewers = rs], !.now = Now], NoTx)
    /\ UNCHANGED << tables, req, started >>

\* s.getPRReviewers; if pr.Status == StatusMerged return pr; now := time.Now()
MergePR_ReadReviewers(w) ==
    /\ At(w, "mp_reviewers")
    /\ \E rs \in getPRReviewers(req[w].pull_request_id) :
          LET pr == [loc[w].pr EXCEPT !.assigned_reviewers = rs]
          IN IF pr.status = StatusMerged
             THEN /\ Return(w, Result(ErrNone, pr, "", NoUser))
             ELSE /\ Goto(w, "mp_update", [loc[w] EXCEPT !.pr = pr, !.now = Now], NoTx)
    /\ UNCHANGED << tables, req, started >>

\* Faulty variant: the UPDATE without merged_at = $2
MergePR_Update_Unstamped(w) ==
    /\ At(w, "mp_update")
    /\ pull_requests' =
          {IF p.pull_request_id = req[w].pull_request_id
           THEN [p EXCEPT !.status = StatusMerged]
           ELSE p : p \in pull_requests}
    /\ Return(w, Result(ErrNone,
                        [loc[w].pr EXCEPT !.status = StatusMerged, !.merged_at = loc[w].now],
                        "", NoUser))
    /\ UNCHANGED << teams, users, pr_reviewers, req, started >>

\* UPDATE pull_requests SET status = MERGED, merged_at = now
MergePR_Update(w) ==
    /\ At(w, "mp_update")
    /\ pull_requests' =
          {IF p.pull_request_id = req[w].pull_request_id
           THEN [p EXCEPT !.status = StatusMerged, !.merged_at = loc[w].now]
           ELSE p : p \in pull_requests}
    /\ Return(w, Result(ErrNone,
                        [loc[w].pr EXCEPT !.status = StatusMerged, !.merged_at = loc[w].now],
                        "", NoUser))
    /\ UNCHANGED << teams, users, pr_reviewers, req, started >>

\* ---------------------------------------------------------------- ReassignReviewer

\* s.getPRWithReviewers: SELECT ... FROM pull_requests WHERE pull_request_id = $1
Reassign_ReadPR(w, prID, oldReviewer) ==
    /\ Free(w)
    /\ started' = started + 1
    /\ req' = [req EXCEPT ![w] = ReassignRequest(prID, oldReviewer)]
    /\ IF PRRows(prID) = {}
       THEN Return(w, Failure(ErrNotFound))
       ELSE \E p \in PRRows(prID) :
               Goto(w, "ra_reviewers", [NoLocals EXCEPT !.pr = ScanPR(p)], NoTx)
    /\ UNCHANGED tables

\* Faulty variant: ReassignReviewer without the check for a merged PR
Reassign_ReadReviewers_Unfrozen(w) ==
    /\ At(w, "ra_reviewers")
    /\ \E rs \in getPRReviewers(req[w].pull_request_id) :
          LET pr == [loc[w].pr EXCEPT !.assigned_reviewers = rs]
          IN IF ~contains(pr.assigned_reviewers, req[w].old_reviewer_id)
             THEN Return(w, Failure(ErrNotAssigned))
             ELSE Goto(w, "ra_team", [loc[w] EXCEPT !.pr = pr], NoTx)
    /\ UNCHANGED << tables, req, started >>

\* s.getPRReviewers; the checks for PR_MERGED and NOT_ASSIGNED
Reassign_ReadReviewers(w) ==
    /\ At(w, "ra_reviewers")
    /\ \E rs \in getPRReviewers(req[w].pull_request_id) :
          LET pr == [loc[w].pr EXCEPT !.assigned_reviewers = rs]
          IN IF pr.status = StatusMerged
             THEN Return(w, Failure(ErrPRMerged))
             ELSE IF ~contains(pr.assigned_reviewers, req[w].old_reviewer_id)
                  THEN Return(w, Failure(ErrNotAssigned))
                  ELSE Goto(w, "ra_team", [loc[w] EXCEPT !.pr = pr], NoTx)
    /\ UNCHANGED << tables, req, started >>

\* SELECT team_name FROM users WHERE user_id = $1 (the old reviewer)
Reassign_ReadTeam(w) ==
    /\ At(w, "ra_team")
    /\ IF UserRows(req[w].old_reviewer_id) = {}
       THEN Return(w, Failure(ErrOther))
       ELSE \E u \in UserRows(req[w].old_reviewer_id) :
               Goto(w, "ra_candidates", [loc[w] EXCEPT !.oldReviewerTeam = u.team_name], NoTx)
    /\ UNCHANGED << tables, req, started >>

\* Faulty variant: ReassignReviewer without the check for an empty pool
Reassign_FindCandidates_Unguarded(w) ==
    /\ At(w, "ra_candidates")
    /\ LET candidateIDs == findReplacementCandidates(loc[w].oldReviewerTeam,
                               loc[w].pr.author_id, loc[w].pr.assigned_reviewers,
                               req[w].old_reviewer_id)
       IN EnterDraw(w, "ra_draw", [loc[w] EXCEPT !.candidateIDs = candidateIDs])
    /\ UNCHANGED << tables, req, started >>

\* s.findReplacementCandidates; the check for NO_CANDIDATE;
\* s.selectRandomReviewer enters s.rng.Intn
Reassign_FindCandidates(w) ==
    /\ At(w, "ra_candidates")
    /\ LET candidateIDs == findReplacementCandidates(loc[w].oldReviewerTeam,
                               loc[w].pr.author_id, loc[w].pr.assigned_reviewers,
                               req[w].old_reviewer_id)
       IN IF candidateIDs = {}
          THEN Return(w, Failure(ErrNoCandidate))
          ELSE EnterDraw(w, "ra_draw", [loc[w] EXCEPT !.candidateIDs = candidateIDs])
    /\ UNCHANGED << tables, req, started >>

\* s.rng.Intn returns; s.db.Begin()
Reassign_Draw(w) ==
    /\ At(w, "ra_draw")
    /\ \E n \in selectRandomReviewer(loc[w].candidateIDs) :
          Goto(w, "ra_delete", [loc[w] EXCEPT !.newReviewer = n],
               [NoTx EXCEPT !.open = TRUE, !.begun = Now])
    /\ UNCHANGED << tables, req, started >>

\* A draw on a source that draws at the same time have run on: its numbers
\* stay in range, so the draw returns some selection as above, or the source
\* indexes outside its state and the draw panics; the router's recovery ends
\* the request, which has written nothing yet.
DrawPanics(w) ==
    /\ NoneDone
    /\ Drawing(w)
    /\ rng = RngRaced
    /\ Return(w, Failure(Panicked))
    /\ UNCHANGED << tables, req, started >>

\* Faulty variant: the DELETE issued on s.db instead of tx
Reassign_Delete_Autocommit(w) ==
    /\ At(w, "ra_delete")
    /\ ReviewerRowHolders(w, req[w].pull_request_id, req[w].old_reviewer_id) = {}
    /\ pr_reviewers' = {r \in pr_reviewers : ~(/\ r.pr_id = req[w].pull_request_id
                                                /\ r.reviewer_id = req[w].old_reviewer_id)}
    /\ Goto(w, "ra_insert", loc[w], tx[w])
    /\ UNCHANGED << teams, users, pull_requests, req, started >>

\* DELETE FROM pr_reviewers WHERE pr_id = $1 AND reviewer_id = $2: waits for
\* an open transaction that deleted the row, deletes the committed rows that
\* match (none, when that transaction committed).
Reassign_Delete(w) ==
    /\ At(w, "ra_delete")
    /\ ReviewerRowHolders(w, req[w].pull_request_id, req[w].old_reviewer_id) = {}
    /\ Goto(w, "ra_insert", loc[w],
            [tx[w] EXCEPT !.revDel =
                {r \in pr_reviewers : /\ r.pr_id = req[w].pull_request_id
                                      /\ r.reviewer_id = req[w].old_reviewer_id}])
    /\ UNCHANGED << tables, req, started >>

\* INSERT INTO pr_reviewers (pr_id, reviewer_id): waits for an open
\* transaction that wrote the key, fails on the primary key when it is taken.
Reassign_Insert(w) ==
    /\ At(w, "ra_insert")
    /\ ReviewerKeyHolders(w, req[w].pull_request_id, loc[w].newReviewer) = {}
    /\ IF ReviewerKeyTaken(w, req[w].pull_request_id, loc[w].newReviewer)
       THEN Return(w, Failure(ErrOther))
       ELSE Goto(w, "ra_commit", loc[w],
                 [tx[w] EXCEPT !.revIns = @ \cup
                     {[pr_id |-> req[w].pull_request_id,
                       reviewer_id |-> loc[w].newReviewer,
                       assigned_at |-> tx[w].begun]}])
    /\ UNCHANGED << tables, req, started >>

\* tx.Commit(); s.replaceInSlice; return pr, newReviewer
Reassign_Commit(w) ==
    /\ At(w, "ra_commit")
    /\ pr_reviewers' = CommitReviewers(pr_reviewers, tx[w].revDel, tx[w].revIns)
    /\ Return(w, Result(ErrNone,
                        [loc[w].pr EXCEPT !.assigned_reviewers =
                            replaceInSlice(@, req[w].old_reviewer_id, loc[w].newReviewer)],
                        loc[w].newReviewer, NoUser))
    /\ UNCHANGED << teams, users, pull_requests, req, started >>

\* ---------------------------------------------------------------- the caller

\* The handler writes the response; the worker is free again.
Respond(w) ==
    /\ pc[w] = "done"
    /\ pc' = [pc EXCEPT ![w] = "idle"]
    /\ req' = [req EXCEPT ![w] = NoRequest]
    /\ ret' = [ret EXCEPT ![w] = NoResult]
    /\ UNCHANGED << tables, loc, tx, started, rng >>

\* ---------------------------------------------------------------- deadlock

\* The workers whose open transaction the next statement of w waits for.
WaitsFor(w) ==
    CASE pc[w] = "ct_member" /\ loc[w].i <= Len(req[w].members) ->
             UserRowHolders(w, req[w].members[loc[w].i].user_id)
      [] pc[w] = "cp_insert" -> PRKeyHolders(w, req[w].pull_request_id)
      [] pc[w] = "cp_reviewer" /\ loc[w].i <= Len(loc[w].reviewers) ->
             ReviewerKeyHolders(w, req[w].pull_request_id, loc[w].reviewers[loc[w].i])
      [] pc[w] = "ra_delete" ->
             ReviewerRowHolders(w, req[w].pull_request_id, req[w].old_reviewer_id)
      [] pc[w] = "ra_insert" ->
             ReviewerKeyHolders(w, req[w].pull_request_id, loc[w].newReviewer)
      [] OTHER -> {}

\* PostgreSQL's deadlock detector: of two transactions that wait for each
\* other one is aborted, and its statement returns an error.
DeadlockAbort(w) ==
    /\ NoneDone
    /\ \E o \in WaitsFor(w) : w \in WaitsFor(o)
    /\ Return(w, Failure(ErrOther))
    /\ UNCHANGED << tables, req, started >>

\* ---------------------------------------------------------------- specification

\* One step of worker w.
Step(w) ==
    \/ \E t \in TeamRequests : CreateTeam_InsertTeam(w, t[1], t[2])
    \/ CreateTeam_UpsertMember(w)
    \/ CreateTeam_Commit(w)
    \/ \E userID \in Toggled, isActive \in BOOLEAN : SetUserActive(w, userID, isActive)
    \/ \E id \in PRIds, r \in PRRequests : CreatePR_ReadAuthor(w, id, r[1], r[2])
    \/ CreatePR_ReadCandidates(w)
    \/ CreatePR_Draw(w)
    \/ CreatePR_CheckExists(w)
    \/ CreatePR_InsertPR(w)
    \/ CreatePR_InsertReviewer(w)
    \/ CreatePR_Commit(w)
    \/ \E prID \in PRIds : MergePR_ReadPR(w, prID)
    \/ MergePR_ReadReviewers(w)
    \/ MergePR_Update(w)
    \/ \E prID \in PRIds, oldReviewer \in OldReviewers : Reassign_ReadPR(w, prID, oldReviewer)
    \/ Reassign_ReadReviewers(w)
    \/ Reassign_ReadTeam(w)
    \/ Reassign_FindCandidates(w)
    \/ Reassign_Draw(w)
    \/ Reassign_Delete(w)
    \/ Reassign_Insert(w)
    \/ Reassign_Commit(w)
    \/ Respond(w)

\* Requests are served concurrently.
Next == \E w \in Workers : Step(w) \/ DeadlockAbort(w) \/ DrawPanics(w)

Spec == Init /\ [][Next]_vars

\* No other worker has a request in progress.
Solo(w) == \A o \in Others(w) : pc[o] = "idle"

\* Requests are served one after the other: a worker takes a request only
\* while every other worker is idle.
NextSeq ==
    \E w \in Workers :
        \/ \E t \in TeamRequests : Solo(w) /\ CreateTeam_InsertTeam(w, t[1], t[2])
        \/ CreateTeam_UpsertMember(w)
        \/ CreateTeam_Commit(w)
        \/ \E userID \in Toggled, isActive \in BOOLEAN :
              Solo(w) /\ SetUserActive(w, userID, isActive)
        \/ \E id \in PRIds, r \in PRRequests : Solo(w) /\ CreatePR_ReadAuthor(w, id, r[1], r[2])
        \/ CreatePR_ReadCandidates(w)
        \/ CreatePR_Draw(w)
        \/ CreatePR_CheckExists(w)
        \/ CreatePR_InsertPR(w)
        \/ CreatePR_InsertReviewer(w)
        \/ CreatePR_Commit(w)
        \/ \E prID \in PRIds : Solo(w) /\ MergePR_ReadPR(w, prID)
        \/ MergePR_ReadReviewers(w)
        \/ MergePR_Update(w)
        \/ \E prID \in PRIds, oldReviewer \in OldReviewers :
              Solo(w) /\ Reassign_ReadPR(w, prID, oldReviewer)
        \/ Reassign_ReadReviewers(w)
        \/ Reassign_ReadTeam(w)
        \/ Reassign_FindCandidates(w)
        \/ Reassign_Draw(w)
        \/ Reassign_Delete(w)
        \/ Reassign_Insert(w)
        \/ Reassign_Commit(w)
        \/ Respond(w)

SpecSeq == Init /\ [][NextSeq]_vars

\* ---------------------------------------------------------------- failing writes

\* The INSERT INTO teams of CreateTeam returns an error other than the
\* duplicate key: `return fmt.Errorf("%s: %w", op, err)`.
CreateTeam_InsertTeamFails(w, name, members) ==
    /\ Free(w)
    /\ started' = started + 1
    /\ req' = [req EXCEPT ![w] = CreateTeamRequest(name, members)]
    /\ Return(w, Failure(ErrOther))
    /\ UNCHANGED tables

\* The next statement of an open transaction, or its Commit, returns an
\* error: the method wraps and returns it, and the deferred tx.Rollback()
\* drops the transaction's writes.
WriteFails(w) ==
    /\ NoneDone
    /\ tx[w].open
    /\ Return(w, Failure(ErrOther))
    /\ UNCHANGED << tables, req, started >>

\* Requests are served concurrently, and any write may fail.
NextFault ==
    \E w \in Workers :
        \/ Step(w)
        \/ DeadlockAbort(w)
        \/ DrawPanics(w)
        \/ \E t \in TeamRequests : CreateTeam_InsertTeamFails(w, t[1], t[2])
        \/ WriteFails(w)

SpecFault == Init /\ [][NextFault]_vars

\* ---------------------------------------------------------------- properties

\* The reviewer ids table pr_reviewers holds for a PR.
ReviewerIds(prID) == {r.reviewer_id : r \in ReviewerRows(prID)}

\* Worker w has finished a call of method op with error kind err.
Finished(w, op, err) == pc[w] = "done" /\ req[w].op = op /\ ret[w].err = err

\* The step is one of worker w.
Moved(w) == pc'[w] # pc[w] \/ loc'[w] # loc[w] \/ tx'[w] # tx[w]

\* C1: in every reachable state no pull request's author is among the
\* reviewers that table pr_reviewers holds for it.
AuthorNeverReviewer ==
    \A p \in pull_requests : p.author_id \notin ReviewerIds(p.pull_request_id)

\* C1 witness: a reassignment has committed on a PR whose author is an active
\* member of the team the replacement was drawn from.
AuthorNeverReviewer_Witness ==
    \E w \in Workers :
        /\ Finished(w, "ReassignReviewer", ErrNone)
        /\ \E a \in users, n \in users :
              /\ a.user_id = ret[w].pr.author_id
              /\ n.user_id = ret[w].replaced_by
              /\ a.is_active
              /\ a.team_name = n.team_name

\* C2 (as claimed): once a pull request is Merged its author and the reviewers
\* that table pr_reviewers holds for it never change again.
MergedFrozen ==
    [][\A p \in pull_requests :
          p.status = StatusMerged =>
              /\ \E q \in pull_requests' :
                    q.pull_request_id = p.pull_request_id /\ q.author_id = p.author_id
              /\ ReviewerIds(p.pull_request_id)' = ReviewerIds(p.pull_request_id)]_vars

\* C3 (as claimed): a reassignment commits only when the reviewers it loaded
\* at its start are still the reviewers the table holds.
ReassignNotStale ==
    [][\A w \in Workers :
          pc[w] = "ra_commit" /\ pc'[w] = "done" /\ ret'[w].err = ErrNone =>
              Range(loc[w].pr.assigned_reviewers) = ReviewerIds(req[w].pull_request_id)]_vars

\* C4 (as claimed): every reviewer row that a commit adds names a user who is,
\* at that commit, on the team of the pull request's author.
ReviewerFromAuthorsTeam ==
    [][\A r \in pr_reviewers' \ pr_reviewers :
          \E p \in pull_requests', a \in users, u \in users :
              /\ p.pull_request_id = r.pr_id
              /\ a.user_id = p.author_id
              /\ u.user_id = r.reviewer_id
              /\ u.team_name = a.team_name]_vars

\* C5: in every reachable state table pr_reviewers holds no two rows with
\* the same reviewer for an open pull request.
NoDuplicateReviewers ==
    \A p \in pull_requests :
        p.status = StatusOpen =>
            \A r1, r2 \in ReviewerRows(p.pull_request_id) :
                r1.reviewer_id = r2.reviewer_id => r1 = r2

\* C5 witness: of two concurrent reassignments that drew the same
\* replacement, the second insert hit the primary key and the call failed.
NoDuplicateReviewers_Witness ==
    \E w \in Workers :
        /\ Finished(w, "ReassignReviewer", ErrOther)
        /\ ReviewerRows(req[w].pull_request_id) # {}

\* The pool of CreatePR in the current state: the active users on the
\* author's team other than the author.
Pool(authorID) ==
    {u.user_id : u \in {x \in users : /\ x.user_id # authorID
                                       /\ x.is_active
                                       /\ \E a \in UserRows(authorID) :
                                             a.team_name = x.team_name}}

\* C6: when requests are served one at a time, a successful CreatePR returns
\* and stores reviewers that are pairwise distinct, are not the author, are
\* active members of the author's team, and number min(2, size of the pool);
\* CreatePR fails only for an absent author or a taken id, so an empty pool
\* gives an empty reviewer list and no error.
CreatePRPost ==
    \A w \in Workers :
        /\ Finished(w, "CreatePR", ErrNone) =>
              LET rs == ret[w].pr.assigned_reviewers
              IN /\ Len(rs) = Min(2, Cardinality(Pool(req[w].author_id)))
                 /\ \A i, j \in DOMAIN rs : i # j => rs[i] # rs[j]
                 /\ Range(rs) \subseteq Pool(req[w].author_id)
                 /\ req[w].author_id \notin Range(rs)
                 /\ ReviewerIds(req[w].pull_request_id) = Range(rs)
                 /\ Cardinality(ReviewerRows(req[w].pull_request_id)) = Len(rs)
        /\ pc[w] = "done" /\ req[w].op = "CreatePR" /\ ret[w].err # ErrNone =>
              \/ ret[w].err = ErrAuthorNotFound /\ UserRows(req[w].author_id) = {}
              \/ ret[w].err = ErrPRExists /\ PRRows(req[w].pull_request_id) # {}

\* C6 witness: CreatePR has picked 2 reviewers from a pool of 3.
CreatePRPost_Witness ==
    \E w \in Workers :
        /\ Finished(w, "CreatePR", ErrNone)
        /\ Cardinality(Pool(req[w].author_id)) = 3
        /\ Len(ret[w].pr.assigned_reviewers) = 2

\* C7: when requests are served one at a time, the commit of a successful
\* ReassignReviewer adds a reviewer who is not the author, not the old
\* reviewer and not one of the reviewers held before, and who is active and
\* on the old reviewer's team; the old reviewer is no longer held and the
\* number of reviewers is unchanged.
ReassignPost ==
    [][\A w \in Workers :
          pc[w] = "ra_commit" /\ pc'[w] = "done" /\ ret'[w].err = ErrNone =>
              LET prID == req[w].pull_request_id
                  old == req[w].old_reviewer_id
                  new == ret'[w].replaced_by
              IN /\ new # loc[w].pr.author_id
                 /\ \A p \in PRRows(prID) : new # p.author_id
                 /\ new # old
                 /\ new \notin ReviewerIds(prID)
                 /\ \E n \in users, o \in users :
                       /\ n.user_id = new
                       /\ o.user_id = old
                       /\ n.is_active
                       /\ n.team_name = o.team_name
                 /\ old \notin ReviewerIds(prID)'
                 /\ new \in ReviewerIds(prID)'
                 /\ Cardinality(ReviewerRows(prID)') = Cardinality(ReviewerRows(prID))
                 /\ Cardinality(ReviewerIds(prID)') = Cardinality(ReviewerIds(prID))]_vars

\* C7 witness: a reassignment has succeeded on a PR with two reviewers.
ReassignPost_Witness ==
    \E w \in Workers :
        /\ Finished(w, "ReassignReviewer", ErrNone)
        /\ Cardinality(ReviewerIds(req[w].pull_request_id)) = 2
        /\ ret[w].replaced_by \in ReviewerIds(req[w].pull_request_id)

\* C8: no step of a CreatePR call that is taken while its id is held by a
\* stored pull request changes a pull request or a reviewer row; the call
\* does not succeed, and its check for the id returns PR_EXISTS.
CreatePRTaken ==
    [][\A w \in Workers :
          Moved(w) /\ req[w].op = "CreatePR" /\ PRRows(req[w].pull_request_id) # {} =>
              /\ pull_requests' = pull_requests
              /\ pr_reviewers' = pr_reviewers
              /\ pc'[w] = "done" => ret'[w].err # ErrNone
              /\ pc[w] = "cp_exists" => pc'[w] = "done" /\ ret'[w].err = ErrPRExists]_vars

\* C8 witness: a CreatePR call for the id of a stored pull request with
\* another name has returned PR_EXISTS.
CreatePRTaken_Witness ==
    \E w \in Workers :
        /\ Finished(w, "CreatePR", ErrPRExists)
        /\ \E p \in PRRows(req[w].pull_request_id) :
              p.pull_request_name # req[w].pull_request_name

\* C9 (as claimed): a CreatePR call that loses the race for an id fails with
\* PR_EXISTS: CreatePR ends with no error, AUTHOR_NOT_FOUND or PR_EXISTS and
\* with no other kind of error.
CreatePRErrorKinds ==
    \A w \in Workers :
        pc[w] = "done" /\ req[w].op = "CreatePR" =>
            ret[w].err \in {ErrNone, ErrAuthorNotFound, ErrPRExists}

\* C10: a MergePR call on a pull request that is stored as Merged reads it
\* as Merged; a call that read it as Merged changes no table and returns,
\* without error, the pull request with the status and the merge time it
\* read; the UPDATE is run only by a call that read the pull request as Open.
MergeIdempotent ==
    [][\A w \in Workers :
          /\ pc[w] = "idle" /\ req'[w].op = "MergePR" /\ pc'[w] # "done" =>
                /\ UNCHANGED tables
                /\ \E p \in PRRows(req'[w].pull_request_id) :
                      /\ loc'[w].pr.status = p.status
                      /\ loc'[w].pr.merged_at = p.merged_at
                      /\ loc'[w].pr.author_id = p.author_id
          /\ pc[w] = "mp_reviewers" /\ Moved(w) /\ loc[w].pr.status = StatusMerged =>
                /\ UNCHANGED tables
                /\ pc'[w] = "done"
                /\ ret'[w].err = ErrNone
                /\ ret'[w].pr.status = StatusMerged
                /\ ret'[w].pr.merged_at = loc[w].pr.merged_at
                /\ ret'[w].pr.merged_at # NoTime
                /\ ret'[w].pr.author_id = loc[w].pr.author_id
                /\ Range(ret'[w].pr.assigned_reviewers) = ReviewerIds(req[w].pull_request_id)
          /\ pc[w] = "mp_update" => loc[w].pr.status = StatusOpen]_vars

\* C10 witness: MergePR is running on a pull request that it found Merged.
MergeIdempotent_Witness ==
    \E w \in Workers :
        /\ pc[w] = "mp_reviewers"
        /\ loc[w].pr.status = StatusMerged
        /\ \E p \in PRRows(req[w].pull_request_id) : p.merged_at # NoTime

\* C11: a ReassignReviewer call started on a pull request that is stored as
\* Merged reads it as Merged, and a call that read it as Merged ends at its
\* next step with PR_MERGED, whatever the old reviewer is (assigned or not),
\* and changes no table.
ReassignOnMerged ==
    [][\A w \in Workers :
          /\ pc[w] = "idle" /\ req'[w].op = "ReassignReviewer"
             /\ (\E p \in PRRows(req'[w].pull_request_id) : p.status = StatusMerged) =>
                /\ UNCHANGED tables
                /\ pc'[w] = "ra_reviewers"
                /\ loc'[w].pr.status = StatusMerged
          /\ pc[w] = "ra_reviewers" /\ Moved(w) /\ loc[w].pr.status = StatusMerged =>
                /\ UNCHANGED tables
                /\ pc'[w] = "done"
                /\ ret'[w].err = ErrPRMerged
          /\ req[w].op = "ReassignReviewer" /\ pc[w] \notin {"ra_reviewers", "done"} =>
                loc[w].pr.status = StatusOpen]_vars

\* C11 witness: ReassignReviewer has returned PR_MERGED for an old reviewer
\* who is assigned to the merged pull request.
ReassignOnMerged_Witness ==
    \E w \in Workers :
        /\ Finished(w, "ReassignReviewer", ErrPRMerged)
        /\ req[w].old_reviewer_id \in ReviewerIds(req[w].pull_request_id)
        /\ \E p \in PRRows(req[w].pull_request_id) : p.status = StatusMerged

\* C12: a MergePR or ReassignReviewer call for an id that no stored pull
\* request has ends at its first statement with NOT_FOUND and changes no
\* team, user, pull request or reviewer row; it runs no further statement.
NotFoundOnAbsentPR ==
    [][\A w \in Workers :
          pc[w] = "idle" /\ req'[w].op \in {"MergePR", "ReassignReviewer"}
          /\ PRRows(req'[w].pull_request_id) = {} =>
              /\ UNCHANGED tables
              /\ pc'[w] = "done"
              /\ ret'[w].err = ErrNotFound
              /\ ret'[w].pr = NoPR]_vars

\* C12 witness: after an earlier call, a ReassignReviewer call has ended with
\* NOT_FOUND while users are stored but the pull request is not.
NotFoundOnAbsentPR_Witness ==
    /\ \E w \in Workers :
          /\ Finished(w, "ReassignReviewer", ErrNotFound)
          /\ PRRows(req[w].pull_request_id) = {}
    /\ users # {}
    /\ started > 1

\* The replacement pool in the stored state: the active users on the old
\* reviewer's team other than the pull request's author, the old reviewer
\* and the reviewers the pull request holds.
ReplacementPool(prID, old) ==
    {u.user_id : u \in {x \in users : /\ x.is_active
                                       /\ \E o \in UserRows(old) : x.team_name = o.team_name
                                       /\ x.user_id # old
                                       /\ x.user_id \notin ReviewerIds(prID)
                                       /\ \A p \in PRRows(prID) : x.user_id # p.author_id}}

\* C13: when requests are served one at a time, a ReassignReviewer call on an
\* open pull request that holds the old reviewer ends with NO_CANDIDATE
\* exactly when the replacement pool is empty, and then no table changes;
\* NO_CANDIDATE is returned by the candidate lookup only.
NoCandidateIffPoolEmpty ==
    [][\A w \in Workers :
          /\ pc[w] = "ra_candidates" /\ Moved(w) =>
                /\ UNCHANGED tables
                /\ \A p \in PRRows(req[w].pull_request_id) : p.status = StatusOpen
                /\ req[w].old_reviewer_id \in ReviewerIds(req[w].pull_request_id)
                /\ (pc'[w] = "done" /\ ret'[w].err = ErrNoCandidate)
                      <=> ReplacementPool(req[w].pull_request_id, req[w].old_reviewer_id) = {}
                /\ pc'[w] = "done" => ret'[w].err = ErrNoCandidate
          /\ req[w].op = "ReassignReviewer" /\ pc'[w] = "done"
             /\ ret'[w].err = ErrNoCandidate => pc[w] = "ra_candidates"]_vars

\* C13 witness: the team is {A (author), B, C}, all active, the pull request
\* holds the reviewers B and C, and reassigning B has ended with NO_CANDIDATE.
NoCandidateIffPoolEmpty_Witness ==
    \E w \in Workers :
        /\ Finished(w, "ReassignReviewer", ErrNoCandidate)
        /\ req[w].old_reviewer_id = "B"
        /\ ReviewerIds(req[w].pull_request_id) = {"B", "C"}
        /\ \E p \in PRRows(req[w].pull_request_id) : p.author_id = "A"
        /\ users = MemberRows("T1", TrioTeam)

\* C14: a ReassignReviewer call that read the pull request as Open and whose
\* old reviewer is not among the reviewers the pull request holds ends, at
\* the statement that reads the reviewers, with NOT_ASSIGNED and changes no
\* table; NOT_ASSIGNED is returned only there, before the team and the
\* candidates are looked up, and never for a pull request read as Merged.
NotAssignedOnStranger ==
    [][\A w \in Workers :
          /\ pc[w] = "ra_reviewers" /\ Moved(w) /\ loc[w].pr.status = StatusOpen
             /\ req[w].old_reviewer_id \notin ReviewerIds(req[w].pull_request_id) =>
                /\ UNCHANGED tables
                /\ pc'[w] = "done"
                /\ ret'[w].err = ErrNotAssigned
          /\ req[w].op = "ReassignReviewer" /\ pc'[w] = "done"
             /\ ret'[w].err = ErrNotAssigned =>
                /\ pc[w] = "ra_reviewers"
                /\ loc[w].pr.status = StatusOpen
                /\ PRRows(req[w].pull_request_id) # {}
                /\ req[w].old_reviewer_id \notin ReviewerIds(req[w].pull_request_id)
          /\ pc[w] \in {"ra_team", "ra_candidates"} =>
                contains(loc[w].pr.assigned_reviewers, req[w].old_reviewer_id)]_vars

\* C14 witness: a ReassignReviewer call naming an old reviewer who is no
\* stored user has ended with NOT_ASSIGNED on an open pull request that holds
\* two reviewers.
NotAssignedOnStranger_Witness ==
    \E w \in Workers :
        /\ Finished(w, "ReassignReviewer", ErrNotAssigned)
        /\ UserRows(req[w].old_reviewer_id) = {}
        /\ Cardinality(ReviewerIds(req[w].pull_request_id)) = 2
        /\ \E p \in PRRows(req[w].pull_request_id) : p.status = StatusOpen

\* The users table row that CreateTeam writes for member i of request r.
MemberRow(r, i) ==
    User(r.members[i].user_id, r.members[i].username, r.team_name, r.members[i].is_active)

\* C15: when requests are served one at a time, a CreateTeam call for a
\* stored team name ends with TEAM_EXISTS and changes no table, so no listed
\* member is inserted or updated; a call for an absent name goes on, changes
\* nothing before its commit, and ends without error with the team stored,
\* every listed member stored with the listed name, team and active flag, and
\* every other user as before.
CreateTeamCreateOnly ==
    [][\A w \in Workers :
          /\ pc[w] = "idle" /\ req'[w].op = "CreateTeam" =>
                /\ UNCHANGED tables
                /\ req'[w].team_name \in teams => pc'[w] = "done" /\ ret'[w].err = ErrTeamExists
                /\ req'[w].team_name \notin teams => pc'[w] = "ct_member"
          /\ req[w].op = "CreateTeam" /\ Moved(w) /\ pc'[w] # "done" => UNCHANGED tables
          /\ req[w].op = "CreateTeam" /\ pc[w] # "done" /\ pc'[w] = "done" =>
                /\ ret'[w].err = ErrNone
                /\ req[w].team_name \notin teams
                /\ teams' = teams \cup {req[w].team_name}
                /\ \A i \in DOMAIN req[w].members :
                      {u \in users' : u.user_id = req[w].members[i].user_id}
                          = {MemberRow(req[w], i)}
                /\ {u \in users' : \A i \in DOMAIN req[w].members :
                                      u.user_id # req[w].members[i].user_id}
                      = {u \in users : \A i \in DOMAIN req[w].members :
                                          u.user_id # req[w].members[i].user_id}
                /\ UNCHANGED << pull_requests, pr_reviewers >>]_vars

\* C15 witness: after another team was created, a CreateTeam call for a
\* stored team name has ended with TEAM_EXISTS, and a member it lists is not
\* stored as listed.
CreateTeamCreateOnly_Witness ==
    \E w \in Workers :
        /\ Finished(w, "CreateTeam", ErrTeamExists)
        /\ "T2" \in teams
        /\ \E i \in DOMAIN req[w].members : MemberRow(req[w], i) \notin users

\* C16: in every reachable state table users holds one row per user id, and
\* the row's team is a stored team; a successful CreateTeam leaves, for every
\* listed member, exactly the listed row under that user id (an existing
\* user's name, team and active flag are replaced), so the number of rows
\* grows by the number of listed ids that were not stored.
OneRowPerUser ==
    /\ [](/\ \A u1, u2 \in users : u1.user_id = u2.user_id => u1 = u2
          /\ \A u \in users : u.team_name \in teams)
    /\ [][\A w \in Workers :
             req[w].op = "CreateTeam" /\ pc[w] # "done" /\ pc'[w] = "done"
             /\ ret'[w].err = ErrNone =>
                LET ids == {req[w].members[i].user_id : i \in DOMAIN req[w].members}
                    old == {u.user_id : u \in users}
                IN /\ \A i \in DOMAIN req[w].members :
                         {u \in users' : u.user_id = req[w].members[i].user_id}
                             = {MemberRow(req[w], i)}
                   /\ Cardinality(users') = Cardinality(users) + Cardinality(ids \ old)
                   /\ \A i \in DOMAIN req[w].members :
                         \A t \in teams' \ {req[w].team_name} :
                            \A u \in users' :
                               u.team_name = t => u.user_id # req[w].members[i].user_id]_vars

\* C16 witness: CreateTeam has moved the stored user B from team T1, which
\* keeps other members, to the new team T2 under a new name.
OneRowPerUser_Witness ==
    \E w \in Workers :
        /\ Finished(w, "CreateTeam", ErrNone)
        /\ req[w].team_name = "T2"
        /\ UserRows("B") = {User("B", "b2", "T2", TRUE)}
        /\ \E u \in users : u.team_name = "T1"
        /\ Cardinality(users) = 4

\* C17: SetUserActive on a stored user replaces that user's active flag and
\* nothing else: the user's name and team, every other user, the teams, the
\* pull requests and the reviewer rows are as before, and the updated user is
\* returned; on an absent user it returns NOT_FOUND and changes no table.
\* The reviewers that a CreatePR or ReassignReviewer call selects are active
\* in the state of its candidate query, so a user deactivated before that
\* query is not selected.
SetUserActiveFrame ==
    [][\A w \in Workers :
          /\ pc[w] = "idle" /\ req'[w].op = "SetUserActive" =>
                LET id == req'[w].user_id
                IN /\ pc'[w] = "done"
                   /\ UNCHANGED << teams, pull_requests, pr_reviewers >>
                   /\ {u \in users' : u.user_id # id} = {u \in users : u.user_id # id}
                   /\ IF UserRows(id) = {}
                      THEN ret'[w].err = ErrNotFound /\ users' = users
                      ELSE /\ ret'[w].err = ErrNone
                           /\ ret'[w].user.is_active = req'[w].is_active
                           /\ {u \in users' : u.user_id = id} = {ret'[w].user}
                           /\ \A u \in UserRows(id) :
                                 /\ ret'[w].user.username = u.username
                                 /\ ret'[w].user.team_name = u.team_name
          /\ pc[w] \in {"cp_candidates", "ra_candidates"} /\ Moved(w) =>
                \A id \in loc'[w].candidateIDs : \E u \in UserRows(id) : u.is_active
          /\ pc[w] = "cp_draw" /\ pc'[w] = "cp_exists" =>
                Range(loc'[w].reviewers) \subseteq loc[w].candidateIDs
          /\ pc[w] = "ra_draw" /\ pc'[w] = "ra_delete" =>
                loc'[w].newReviewer \in loc[w].candidateIDs]_vars

\* C17 witness: SetUserActive has deactivated D, who stays a reviewer of the
\* pull request and a member of the team.
SetUserActiveFrame_Witness ==
    \E w \in Workers :
        /\ Finished(w, "SetUserActive", ErrNone)
        /\ ret[w].user = User("D", "d", "T1", FALSE)
        /\ ret[w].user \in users
        /\ "D" \in ReviewerIds("p1")

\* C18: a CreatePR call whose author is no stored user ends at its first
\* statement with AUTHOR_NOT_FOUND and changes no table, so it stores no pull
\* request and no reviewer row; in every reachable state the author of every
\* stored pull request is a stored user.
AuthorExists ==
    /\ [](\A p \in pull_requests : UserRows(p.author_id) # {})
    /\ [][\A w \in Workers :
             pc[w] = "idle" /\ req'[w].op = "CreatePR" /\ UserRows(req'[w].author_id) = {} =>
                /\ UNCHANGED tables
                /\ pc'[w] = "done"
                /\ ret'[w].err = ErrAuthorNotFound
                /\ ret'[w].pr = NoPR]_vars

\* C18 witness: CreatePR has ended with AUTHOR_NOT_FOUND while other users
\* are stored and the author is not.
AuthorExists_Witness ==
    \E w \in Workers :
        /\ Finished(w, "CreatePR", ErrAuthorNotFound)
        /\ users # {}
        /\ UserRows(req[w].author_id) = {}
        /\ pull_requests = {}

\* C19: whatever write fails, a step of a CreateTeam, CreatePR or
\* ReassignReviewer call changes a table only when it ends the call without
\* error, so a call that ends with an error has changed nothing, and a call
\* whose transaction was open ends with an error when a write fails; the step
\* that ends the call without error stores all of its writes: the team with
\* every listed member, the pull request with every selected reviewer, the
\* new reviewer together with the removal of the old one, so no step removes
\* the old reviewer without storing the replacement.
AtomicFailure ==
    [][\A w \in Workers :
          LET r == IF pc[w] = "idle" THEN req'[w] ELSE req[w]
              succeeds == pc'[w] = "done" /\ ret'[w].err = ErrNone
              before == {x.reviewer_id : x \in {y \in pr_reviewers :
                                                  y.pr_id = r.pull_request_id}}
              after == {x.reviewer_id : x \in {y \in pr_reviewers' :
                                                 y.pr_id = r.pull_request_id}}
          IN Moved(w) /\ pc[w] # "done"
             /\ r.op \in {"CreateTeam", "CreatePR", "ReassignReviewer"} =>
                /\ ~succeeds => UNCHANGED tables
                /\ pc'[w] = "done" /\ ret'[w].err # ErrNone => tx'[w] = NoTx
                /\ succeeds /\ r.op = "CreateTeam" =>
                      /\ r.team_name \in teams' \ teams
                      /\ \A i \in DOMAIN r.members : MemberRow(r, i) \in users'
                /\ succeeds /\ r.op = "CreatePR" =>
                      /\ \E p \in pull_requests' \ pull_requests :
                            p.pull_request_id = r.pull_request_id
                      /\ after = Range(loc[w].reviewers)
                      /\ ret'[w].pr.assigned_reviewers = loc[w].reviewers
                /\ succeeds /\ r.op = "ReassignReviewer" =>
                      /\ loc[w].newReviewer \in after
                      /\ after \subseteq before \cup {loc[w].newReviewer}
                      /\ before \ {r.old_reviewer_id} \subseteq after
                /\ r.op = "ReassignReviewer" /\ r.old_reviewer_id \in before \ after =>
                      succeeds /\ loc[w].newReviewer \in after]_vars

\* C19 witness: the third of three calls, a ReassignReviewer call, has failed
\* on a statement of its transaction (no other transaction was open, so on no
\* key or lock), and the pull request holds the old reviewer and one more.
AtomicFailure_Witness ==
    \E w \in Workers :
        /\ Finished(w, "ReassignReviewer", ErrOther)
        /\ started = 3
        /\ \A o \in Others(w) : pc[o] = "idle"
        /\ req[w].old_reviewer_id \in ReviewerIds(req[w].pull_request_id)
        /\ Cardinality(ReviewerIds(req[w].pull_request_id)) = 2

\* C20 (as claimed): every reviewer that a CreatePR or ReassignReviewer call
\* commits is, in the state at which it commits, an active user on the team
\* its pool was drawn from (the author's team, the old reviewer's team).
CommittedReviewerEligible ==
    [][\A w \in Workers :
          pc[w] \in {"cp_reviewer", "ra_commit"} /\ pc'[w] = "done"
          /\ ret'[w].err = ErrNone =>
              LET team == IF pc[w] = "cp_reviewer" THEN loc[w].author.team_name
                          ELSE loc[w].oldReviewerTeam
              IN \A r \in pr_reviewers' \ pr_reviewers :
                    \E u \in users : /\ u.user_id = r.reviewer_id
                                     /\ u.is_active
                                     /\ u.team_name = team]_vars

\* C21 (as claimed): in no reachable state are two workers inside a draw on
\* the shared random source at the same time.
DrawsExclusive ==
    \A w1, w2 \in Workers : Drawing(w1) /\ Drawing(w2) => w1 = w2

\* C22: in every reachable state a stored pull request is Open or Merged and
\* has a merge time exactly when it is Merged; every step keeps every stored
\* pull request stored, with its id, name, author and creation time, keeps a
\* Merged one Merged, and stores a new pull request as Open with no merge
\* time.
MergedTerminal ==
    /\ [](\A p \in pull_requests :
             /\ p.status \in {StatusOpen, StatusMerged}
             /\ p.merged_at # NoTime <=> p.status = StatusMerged)
    /\ [][/\ \A p \in pull_requests :
                \E q \in pull_requests' :
                   /\ q.pull_request_id = p.pull_request_id
                   /\ q.pull_request_name = p.pull_request_name
                   /\ q.author_id = p.author_id
                   /\ q.created_at = p.created_at
                   /\ p.status = StatusMerged => q.status = StatusMerged
          /\ \A q \in pull_requests' :
                PRRows(q.pull_request_id) = {} =>
                   q.status = StatusOpen /\ q.merged_at = NoTime]_vars

\* C22 witness: MergePR, as the fourth call, has returned on a pull request
\* that is now stored as Merged with a merge time later than its creation.
MergedTerminal_Witness ==
    \E w \in Workers :
        /\ Finished(w, "MergePR", ErrNone)
        /\ \E p \in PRRows(req[w].pull_request_id) :
              /\ p.status = StatusMerged
              /\ p.merged_at # NoTime
              /\ p.merged_at > p.created_at
        /\ started = 4

\* C23: a ReassignReviewer call keeps the reviewer sequence it loaded at its
\* start until it returns; when it returns without error the returned
\* sequence has the length of the loaded one, holds the returned new reviewer
\* at the one index where the loaded one holds the old reviewer, and holds
\* the loaded entry at every other index.
ReplacedInPlace ==
    [][\A w \in Workers :
          /\ req[w].op = "ReassignReviewer" /\ pc[w] \notin {"ra_reviewers", "done"}
             /\ pc'[w] # "done" =>
                loc'[w].pr.assigned_reviewers = loc[w].pr.assigned_reviewers
          /\ req[w].op = "ReassignReviewer" /\ pc[w] # "done" /\ pc'[w] = "done"
             /\ ret'[w].err = ErrNone =>
                LET loaded == loc[w].pr.assigned_reviewers
                    returned == ret'[w].pr.assigned_reviewers
                    old == req[w].old_reviewer_id
                IN /\ Len(returned) = Len(loaded)
                   /\ Cardinality({i \in DOMAIN loaded : loaded[i] = old}) = 1
                   /\ ret'[w].replaced_by = loc[w].newReviewer
                   /\ ret'[w].replaced_by # old
                   /\ \A i \in DOMAIN loaded :
                         returned[i] = IF loaded[i] = old THEN ret'[w].replaced_by
                                       ELSE loaded[i]]_vars

\* C23 witness: a reassignment has returned two reviewers, the new one at
\* the first index and an untouched one at the second.
ReplacedInPlace_Witness ==
    \E w \in Workers :
        /\ Finished(w, "ReassignReviewer", ErrNone)
        /\ Len(ret[w].pr.assigned_reviewers) = 2
        /\ ret[w].pr.assigned_reviewers[1] = ret[w].replaced_by
        /\ ret[w].pr.assigned_reviewers[2] # req[w].old_reviewer_id

\* C24 (as claimed): when requests are served one at a time, in the state a
\* successful CreatePR or ReassignReviewer call returns in, a load of the
\* pull request's reviewers (ordered by assigned_at) yields the returned
\* sequence and no other.
ReturnedOrderIsStoredOrder ==
    \A w \in Workers :
        pc[w] = "done" /\ req[w].op \in {"CreatePR", "ReassignReviewer"}
        /\ ret[w].err = ErrNone =>
            getPRReviewers(req[w].pull_request_id) = {ret[w].pr.assigned_reviewers}

\* C25 (as claimed): in every reachable state a pull request holds at most 2
\* reviewer rows, and no step gives a stored pull request more reviewer rows
\* than it held before, so it never holds more than when it was created.
ReviewersNeverGrow ==
    /\ [](\A p \in pull_requests : Cardinality(ReviewerRows(p.pull_request_id)) <= 2)
    /\ [][\A p \in pull_requests :
             Cardinality(ReviewerRows(p.pull_request_id)')
                <= Cardinality(ReviewerRows(p.pull_request_id))]_vars

\* C26 (as claimed): a stored merge time never changes, and a MergePR call
\* that returns without error returns the merge time that is stored.
MergedAtStampedOnce ==
    /\ [][\A p \in pull_requests :
             p.merged_at # NoTime =>
                \E q \in pull_requests' : /\ q.pull_request_id = p.pull_request_id
                                          /\ q.merged_at = p.merged_at]_vars
    /\ [](\A w \in Workers :
             Finished(w, "MergePR", ErrNone) =>
                \E p \in PRRows(req[w].pull_request_id) :
                   p.merged_at = ret[w].pr.merged_at)

====
